---- MODULE Spec2Model ----
(***************************************************************************)
(* A model of magic-vlsi's src/lib.rs: the configuration builder, the      *)
(* startup handshake of MagicInstance::new (spawn, bootstrap write,        *)
(* connect loop), the three command methods, the line reader read_line and *)
(* the Drop implementation.  Text is modelled as sequences of bytes.       *)
(***************************************************************************)
EXTENDS Integers, Sequences, FiniteSets, TLC

VARIABLES
    builder,    \* MagicInstanceBuilder: [cwd, tech, magic, port]
    calls,      \* history: the setter calls made on the builder, <<field, value>>
    pc,         \* position of the calling thread
    spawned,    \* history: the spawn() calls, [cmd, ok]
    child,      \* the child process: "none", "running", "exited", "dying"
                \* (SIGKILL sent, not yet dead), "killed"
    kills,      \* number of Child::kill() calls made
    killResult, \* result of the last Child::kill(): "none", "ok", "err"
    stdin,      \* parent's write end of the child's input: "none", "open", "closed"
    script,     \* the writes made to the child's input stream, in order
    listenPort, \* port the child's listener is bound to, 0 when there is none
    addr,       \* the local `addr` of MagicInstance::new (bytes), <<>> before
    attempts,   \* failed passes of the connect loop of the running new
                \* (saturating), 0 once new has returned
    handle,     \* the MagicInstance: "none", "live", "dropped"
    stream,     \* the TcpStream: "none", "open", "closed"
    wire,       \* bytes written to the connection, one entry per command call
    served,     \* request lines the peer has replied to
    input,      \* every byte the peer has sent on the connection
    inbox,      \* bytes sent by the peer and not yet read
    s,          \* read_line's accumulator `s`
    lines,      \* history: the lines returned by read_line
    starts,     \* history: stream position at which each read_line call began
    taken,      \* history: number of bytes the reads on the connection returned
    eofs,       \* zero-length reads seen by the current read_line (saturating)
    err,        \* what the thread panicked with, "none" otherwise
    caught,     \* history: the caller has caught a panic and kept the handle
    pending,    \* pieces of the running writeln! not yet sent on the connection
    foreign,    \* a listener on the port that is not the child: "none",
                \* "listening", "connected" (it accepted), "closed" (it left)
    inst        \* two handles side by side: per handle, the state above

\* The state of one handle.
solo == <<builder, calls, pc, spawned, child, kills, killResult, stdin, script,
          listenPort, addr, attempts, handle, stream, wire, served, input,
          inbox, s, lines, starts, taken, eofs, err, caught, pending, foreign>>

vars == <<solo, inst>>

(***************************************************************************)
(* Bounds of the model.                                                    *)
(***************************************************************************)
MaxSetters == 3
MaxCalls == 2
MaxAttempts == 2
MaxEofs == 1
PairCalls == 1

MaxStream == 4

(***************************************************************************)
(* Bytes and text.                                                         *)
(***************************************************************************)
None == "None"

Min(a, b) == IF a < b THEN a ELSE b

\* "\n"
NL == <<10>>

NumNL(bs) == Cardinality({i \in 1..Len(bs) : bs[i] = 10})

RECURSIVE Flat(_)
Flat(ws) == IF ws = <<>> THEN <<>> ELSE Head(ws) \o Flat(Tail(ws))

\* Display of an unsigned integer: its decimal digits as ASCII bytes.
RECURSIVE Decimal(_)
Decimal(n) == IF n < 10 THEN <<48 + n>> ELSE Decimal(n \div 10) \o <<48 + (n % 10)>>

\* std::str::from_utf8 accepts exactly the well-formed UTF-8 byte sequences.
IsCont(b) == b >= 128 /\ b <= 191

RECURSIVE Utf8From(_, _)
Utf8From(bs, i) ==
    IF i > Len(bs) THEN TRUE
    ELSE LET b == bs[i]
             n == Len(bs)
         IN  IF b < 128 THEN Utf8From(bs, i + 1)
             ELSE IF b >= 194 /\ b <= 223
                  THEN i + 1 <= n /\ IsCont(bs[i + 1]) /\ Utf8From(bs, i + 2)
             ELSE IF b >= 224 /\ b <= 239
                  THEN /\ i + 2 <= n
                       /\ IsCont(bs[i + 1])
                       /\ (b = 224 => bs[i + 1] >= 160)
                       /\ (b = 237 => bs[i + 1] <= 159)
                       /\ IsCont(bs[i + 2])
                       /\ Utf8From(bs, i + 3)
             ELSE IF b >= 240 /\ b <= 244
                  THEN /\ i + 3 <= n
                       /\ IsCont(bs[i + 1])
                       /\ (b = 240 => bs[i + 1] >= 144)
                       /\ (b = 244 => bs[i + 1] <= 143)
                       /\ IsCont(bs[i + 2])
                       /\ IsCont(bs[i + 3])
                       /\ Utf8From(bs, i + 4)
             ELSE FALSE

\* A decoder that looks only at the bytes before the first newline.
ValidUtf8ToNewline(bs) ==
    LET hits == {i \in 1..Len(bs) : bs[i] = 10}
        e == IF hits = {} THEN Len(bs)
             ELSE (CHOOSE i \in hits : \A j \in hits : i <= j) - 1
    IN  (\A i \in 1..e : bs[i] < 128) \/ Utf8From(SubSeq(bs, 1, e), 1)

ValidUtf8(bs) == (\A i \in 1..Len(bs) : bs[i] < 128) \/ Utf8From(bs, 1)

\* str::find('\n'): position (from 1) of the first newline, 0 when there is none.
FindNL(bs) ==
    LET hits == {i \in 1..Len(bs) : bs[i] = 10}
    IN  IF hits = {} THEN 0 ELSE CHOOSE i \in hits : \A j \in hits : i <= j

(***************************************************************************)
(* The configuration builder.                                              *)
(***************************************************************************)
DefaultPort == 9999

DefaultBuilder == [cwd |-> None, tech |-> None, magic |-> None, port |-> DefaultPort]

Paths == {"/fake/path/dir", "src/"}
Techs == {"sky130A", "scmos"}
Binaries == {"/opt/magic"}
Ports == {1024, 1025}

SetCwd(b, v) == [b EXCEPT !.cwd = v]

SetTech(b, v) == [b EXCEPT !.tech = v]

SetMagic(b, v) == [b EXCEPT !.magic = v]

\* A port setter that keeps the first port given (first write wins).
SetPortOnce(b, v) == IF b.port = DefaultPort THEN [b EXCEPT !.port = v] ELSE b

SetPort(b, v) == [b EXCEPT !.port = v]

Apply(b, c) ==
    CASE c[1] = "cwd" -> SetCwd(b, c[2])
      [] c[1] = "tech" -> SetTech(b, c[2])
      [] c[1] = "magic" -> SetMagic(b, c[2])
      [] c[1] = "port" -> SetPort(b, c[2])

RECURSIVE ApplyAll(_, _)
ApplyAll(b, cs) == IF cs = <<>> THEN b ELSE ApplyAll(Apply(b, Head(cs)), Tail(cs))

\* The setter sequences the handshake is explored from: the default builder,
\* and that of the crate's tests with the binary named.
StartConfigs ==
    { <<>>,
      << <<"magic", "/opt/magic">>, <<"tech", "sky130A">>, <<"port", 1024>> >> }

\* The Command built by MagicInstance::new from a builder.
NewCommand(b) ==
    [program |-> IF b.magic # None THEN b.magic ELSE "magic",
     args |-> <<"-dnull", "-noconsole">>
              \o (IF b.tech # None THEN <<"-T", b.tech>> ELSE <<>>),
     cwd |-> b.cwd,
     stdin |-> "piped", stdout |-> "null", stderr |-> "null"]

(***************************************************************************)
(* The setters.  Each consumes the builder and returns it with one field   *)
(* replaced.                                                               *)
(***************************************************************************)
Configure(c) ==
    /\ pc = "builder"
    /\ Len(calls) < MaxSetters
    /\ builder' = Apply(builder, c)
    /\ calls' = Append(calls, c)
    /\ UNCHANGED <<pc, spawned, child, kills, killResult, stdin, script,
                   listenPort, addr, attempts, handle, stream, wire, served,
                   input, inbox, s, lines, starts, taken, eofs, err>>
    /\ UNCHANGED <<inst, caught, foreign, pending>>

Cwd == \E v \in Paths : Configure(<<"cwd", v>>)

Tech == \E v \in Techs : Configure(<<"tech", v>>)

Magic == \E v \in Binaries : Configure(<<"magic", v>>)

Port == \E v \in Ports : Configure(<<"port", v>>)

(***************************************************************************)
(* MagicInstance::new: the startup handshake.                              *)
(***************************************************************************)
\* "set svcPort {}\n"
PortLine(p) ==
    <<115, 101, 116, 32, 115, 118, 99, 80, 111, 114, 116, 32>> \o Decimal(p) \o NL

\* The pieces write_fmt hands to the pipe, one write each.
PortLinePieces(p) ==
    <<<<115, 101, 116, 32, 115, 118, 99, 80, 111, 114, 116, 32>>, Decimal(p), NL>>

\* An address with the default port written into it.
AddrFixed(p) == <<49, 50, 55, 46, 48, 46, 48, 46, 49, 58>> \o Decimal(DefaultPort)

\* "127.0.0.1:{}"
Addr(p) == <<49, 50, 55, 46, 48, 46, 48, 46, 49, 58>> \o Decimal(p)

SpawnOk ==
    /\ spawned' = Append(spawned, [cmd |-> NewCommand(builder), ok |-> TRUE])
    /\ child' = "running"
    /\ stdin' = "open"
    /\ pc' = "write_port"
    /\ err' = err

\* A spawn that, having failed, is tried once more.
SpawnFailsRetry ==
    /\ spawned' = spawned \o <<[cmd |-> NewCommand(builder), ok |-> FALSE],
                              [cmd |-> NewCommand(builder), ok |-> TRUE]>>
    /\ child' = "running"
    /\ stdin' = "open"
    /\ pc' = "write_port"
    /\ err' = err

\* cmd.spawn().unwrap() on an Err: the thread panics.
SpawnFails ==
    /\ spawned' = Append(spawned, [cmd |-> NewCommand(builder), ok |-> FALSE])
    /\ pc' = "panicked"
    /\ err' = "spawn"
    /\ UNCHANGED <<child, stdin>>

Build ==
    /\ pc = "builder"
    /\ (SpawnOk \/ SpawnFails)
    /\ UNCHANGED <<builder, calls, kills, killResult, script, listenPort, addr,
                   attempts, handle, stream, wire, served, input, inbox, s,
                   lines, starts, taken, eofs>>
    /\ UNCHANGED <<inst, caught, foreign, pending>>

\* A panic inside new after the spawn: the locals `stdin` and `child` are
\* dropped; dropping a Child neither kills nor waits for the process.
PanicInNew(e) ==
    /\ pc' = "panicked"
    /\ err' = e
    /\ stdin' = "closed"
    /\ UNCHANGED <<child, kills, killResult, listenPort, handle, stream>>

\* A handshake that goes to the connect loop right after the port line.
WritePortSkipScript ==
    /\ pc = "write_port"
    /\ script' = Append(script, [op |-> "writeln", data |-> PortLine(builder.port)])
    /\ addr' = Addr(builder.port)
    /\ pc' = "connect"
    /\ UNCHANGED <<err, stdin, child, kills, killResult, listenPort, handle, stream>>
    /\ UNCHANGED <<builder, calls, spawned, attempts, wire, served, input,
                   inbox, s, lines, starts, taken, eofs>>
    /\ UNCHANGED <<inst, caught, foreign, pending>>

\* writeln!(&mut stdin, ..).unwrap(): the write of piece k + 1 may fail,
\* with the k pieces before it already in the pipe.
WritePort ==
    /\ pc = "write_port"
    /\ \/ /\ script' = Append(script, [op |-> "writeln", data |-> PortLine(builder.port)])
          /\ pc' = "write_script"
          /\ UNCHANGED <<err, stdin, child, kills, killResult, listenPort, handle, stream>>
       \/ /\ PanicInNew("handshake-write")
          /\ \E k \in 0..(Len(PortLinePieces(builder.port)) - 1) :
                script' = IF k = 0 THEN script
                          ELSE Append(script,
                                 [op |-> "writeln",
                                  data |-> Flat(SubSeq(PortLinePieces(builder.port), 1, k))])
    /\ UNCHANGED <<builder, calls, spawned, addr, attempts, wire, served, input,
                   inbox, s, lines, starts, taken, eofs>>
    /\ UNCHANGED <<inst, caught, foreign, pending>>

WriteScript ==
    /\ pc = "write_script"
    /\ \/ /\ script' = Append(script, [op |-> "write_all", data |-> "serversock.tcl"])
          /\ addr' = Addr(builder.port)
          /\ pc' = "connect"
          /\ UNCHANGED <<err, stdin, child, kills, killResult, listenPort, handle, stream>>
       \/ /\ PanicInNew("handshake-write")
          /\ UNCHANGED <<script, addr>>
    /\ UNCHANGED <<builder, calls, spawned, attempts, wire, served, input,
                   inbox, s, lines, starts, taken, eofs>>
    /\ UNCHANGED <<inst, caught, foreign, pending>>

\* A connect loop that gives up after MaxAttempts failures.
ConnectFailsBounded ==
    IF attempts < MaxAttempts
    THEN /\ attempts' = attempts + 1
         /\ UNCHANGED <<pc, err, stdin, handle, stream, foreign>>
    ELSE /\ pc' = "panicked"
         /\ err' = "connect"
         /\ stdin' = "closed"
         /\ UNCHANGED <<attempts, handle, stream, foreign>>

\* TcpStream::connect returned an Err: the loop goes round again.
ConnectFails ==
    /\ attempts' = Min(attempts + 1, MaxAttempts)
    /\ UNCHANGED <<pc, err, stdin, handle, stream, foreign>>

\* A successful connect after which the handle keeps the child's stdin.
ConnectOkKeepStdin ==
    /\ stream' = "open"
    /\ handle' = "live"
    /\ pc' = "idle"
    /\ foreign' = IF foreign = "listening" THEN "connected" ELSE foreign
    /\ attempts' = 0
    /\ UNCHANGED <<err, stdin>>

\* TcpStream::connect returned Ok: new returns Self { child, stream }, and
\* its locals are gone: `stdin` is dropped, the loop has no more passes.
\* The far end is whoever accepted.
ConnectOk ==
    /\ stream' = "open"
    /\ handle' = "live"
    /\ stdin' = "closed"
    /\ pc' = "idle"
    /\ foreign' = IF foreign = "listening" THEN "connected" ELSE foreign
    /\ attempts' = 0
    /\ UNCHANGED err

\* Does anything accept a connection to address a: the child's listener,
\* or a listener that is not the child's and holds the builder's port.
Accepts(a) ==
    \/ listenPort # 0 /\ a = Addr(listenPort)
    \/ foreign = "listening" /\ a = Addr(builder.port)

\* One pass of the loop: one TcpStream::connect(&addr).
ConnectAttempt ==
    /\ pc = "connect"
    /\ IF Accepts(addr) THEN ConnectOk ELSE ConnectFails
    /\ UNCHANGED <<builder, calls, spawned, child, kills, killResult, script,
                   listenPort, addr, wire, served, input, inbox, s, lines,
                   starts, taken, eofs>>
    /\ UNCHANGED <<inst, caught, pending>>

(***************************************************************************)
(* The external tool: the child process and its socket server.  Its script *)
(* (serversock.tcl) reads svcPort, listens on it and answers every request *)
(* line with one reply line.                                               *)
(***************************************************************************)
RECURSIVE ParseDecimal(_)
ParseDecimal(bs) ==
    IF bs = <<>> THEN 0
    ELSE 10 * ParseDecimal(SubSeq(bs, 1, Len(bs) - 1)) + (bs[Len(bs)] - 48)

\* The value the port line assigns to svcPort.
SvcPort(line) == ParseDecimal(SubSeq(line, 13, Len(line) - 1))

\* "ok\n", and a line that is not UTF-8: "\u{e9}\n" in Latin-1
Replies == {<<111, 107, 10>>, <<233, 10>>}

\* The far end of the connection is there: the child, or the listener
\* that accepted in its place.
PeerAlive ==
    IF foreign \in {"connected", "closed"} THEN foreign = "connected"
    ELSE child \in {"running", "dying"}

\* The child listens on svcPort once it has run the script, unless the port
\* is held by another listener.
ChildListen ==
    /\ child = "running"
    /\ listenPort = 0
    /\ Len(script) = 2
    /\ foreign \notin {"listening", "connected"}
    /\ listenPort' = SvcPort(script[1].data)
    /\ UNCHANGED <<builder, calls, pc, spawned, child, kills, killResult, stdin,
                   script, addr, attempts, handle, stream, wire, served, input,
                   inbox, s, lines, starts, taken, eofs, err>>
    /\ UNCHANGED <<inst, caught, foreign, pending>>

\* The child exits on its own: its listener and its end of the connection close.
ChildExit ==
    /\ child = "running"
    /\ child' = "exited"
    /\ listenPort' = 0
    /\ UNCHANGED <<builder, calls, pc, spawned, kills, killResult, stdin, script,
                   addr, attempts, handle, stream, wire, served, input, inbox,
                   s, lines, starts, taken, eofs, err>>
    /\ UNCHANGED <<inst, caught, foreign, pending>>

\* SIGKILL takes effect: the child is gone, and its listener with it.
ChildDies ==
    /\ child = "dying"
    /\ child' = "killed"
    /\ listenPort' = 0
    /\ UNCHANGED <<builder, calls, pc, spawned, kills, killResult, stdin, script,
                   addr, attempts, handle, stream, wire, served, input, inbox,
                   s, lines, starts, taken, eofs, err>>
    /\ UNCHANGED <<inst, caught, foreign, pending>>

\* The listener that is not the child goes away.
ForeignClose ==
    /\ foreign \in {"listening", "connected"}
    /\ foreign' = IF foreign = "connected" THEN "closed" ELSE "none"
    /\ UNCHANGED <<builder, calls, pc, spawned, child, kills, killResult, stdin,
                   script, listenPort, addr, attempts, handle, stream, wire,
                   served, input, inbox, s, lines, starts, taken, eofs, err,
                   caught, pending, inst>>

PeerReply ==
    /\ PeerAlive
    /\ stream = "open"
    /\ served < NumNL(Flat(wire))
    /\ \E r \in Replies :
          /\ inbox' = inbox \o r
          /\ input' = input \o r
    /\ served' = served + 1
    /\ UNCHANGED <<builder, calls, pc, spawned, child, kills, killResult, stdin,
                   script, listenPort, addr, attempts, handle, stream, wire,
                   s, lines, starts, taken, eofs, err>>
    /\ UNCHANGED <<inst, caught, foreign, pending>>

(***************************************************************************)
(* Drop for MagicInstance, and a panic in a method of a live handle: the   *)
(* unwinding drops the handle.                                             *)
(***************************************************************************)
\* Child::kill() sends SIGKILL; on a process that has already exited the
\* result depends on the platform.
KillResults(c) == IF c = "running" THEN {"ok"} ELSE {"ok", "err"}

\* let _ = self.child.kill(); then the fields are dropped.  kill() sends
\* SIGKILL and returns; nothing waits for the child, which is still there,
\* its listener with it, until the signal has done its work.
DropHandle ==
    /\ handle' = "dropped"
    /\ stream' = "closed"
    /\ kills' = kills + 1
    /\ killResult' \in KillResults(child)
    /\ child' = IF child = "running" THEN "dying" ELSE child
    /\ UNCHANGED listenPort

\* unwrap() on an Err inside a method: the thread panics.  The handle
\* belongs to the caller and is untouched by the method's own unwinding.
PanicInCommand(e) ==
    /\ pc' = "panicked"
    /\ err' = e
    /\ UNCHANGED <<child, kills, killResult, listenPort, handle, stream>>

\* The unwinding reaches the owner of the handle: the handle is dropped.
Unwind ==
    /\ pc = "panicked"
    /\ handle = "live"
    /\ DropHandle
    /\ UNCHANGED <<builder, calls, pc, spawned, stdin, script, addr, attempts,
                   wire, served, input, inbox, s, lines, starts, taken, eofs,
                   err>>
    /\ UNCHANGED <<inst, caught, foreign, pending>>

\* The caller catches the panic and keeps the handle.
CatchPanic ==
    /\ pc = "panicked"
    /\ handle = "live"
    /\ pc' = "idle"
    /\ err' = "none"
    /\ caught' = TRUE
    /\ UNCHANGED <<builder, calls, spawned, child, kills, killResult, stdin,
                   script, listenPort, addr, attempts, handle, stream, wire,
                   served, input, inbox, s, lines, starts, taken, eofs>>
    /\ UNCHANGED <<inst, foreign, pending>>

Drop ==
    /\ pc = "idle"
    /\ handle = "live"
    /\ DropHandle
    /\ pc' = "done"
    /\ UNCHANGED <<builder, calls, spawned, stdin, script, addr, attempts, wire,
                   served, input, inbox, s, lines, starts, taken, eofs, err>>
    /\ UNCHANGED <<inst, caught, foreign, pending>>

(***************************************************************************)
(* The commands: one formatted write, then read_line.                      *)
(***************************************************************************)
\* "sram" and "a\nb"
Cells == {<<115, 114, 97, 109>>, <<97, 10, 98>>}

\* The pieces write_fmt hands to the stream, one write_all each.
GetcellPieces(cell) == <<<<103, 101, 116, 99, 101, 108, 108, 32>>, cell, NL>>

SidewaysPieces == <<<<115, 105, 100, 101, 119, 97, 121, 115, 10>>>>

SelectBboxPieces == <<<<115, 101, 108, 101, 99, 116, 32, 98, 98, 111, 120, 10>>>>

Requests == {GetcellPieces(c) : c \in Cells} \cup {SidewaysPieces, SelectBboxPieces}

\* read_line begins: let mut s = String::new().
EnterReadLine ==
    /\ s' = <<>>
    /\ eofs' = 0
    /\ starts' = Append(starts, taken)
    /\ pc' = "reading"

\* A failed send whose error is ignored: the command goes on to read.
WriteFailsIgnored(w) ==
    /\ wire' = w
    /\ pending' = <<>>
    /\ err' = "command-write"
    /\ EnterReadLine
    /\ UNCHANGED <<child, kills, killResult, listenPort, handle, stream>>

\* A failed send after which the command kills the child and returns.
WriteFailsKillOnly(w) ==
    /\ wire' = w
    /\ pending' = <<>>
    /\ kills' = kills + 1
    /\ killResult' \in KillResults(child)
    /\ child' = IF child = "running" THEN "dying" ELSE child
    /\ pc' = "idle"
    /\ UNCHANGED <<err, handle, stream, listenPort, s, eofs, starts>>

\* writeln!(..).unwrap() on an Err of one send: what was sent before it is
\* on the wire (w), read_line is not called.
WriteFails(w) ==
    /\ wire' = w
    /\ pending' = <<>>
    /\ PanicInCommand("command-write")
    /\ UNCHANGED <<s, eofs, starts>>

\* One send succeeded: the piece is on the wire; after the last piece the
\* command calls read_line.
WriteOk(w, ps) ==
    /\ wire' = [w EXCEPT ![Len(w)] = @ \o Head(ps)]
    /\ pending' = Tail(ps)
    /\ IF Tail(ps) = <<>>
       THEN EnterReadLine
       ELSE /\ pc' = "writing"
            /\ UNCHANGED <<s, eofs, starts>>
    /\ UNCHANGED <<child, kills, killResult, listenPort, handle, stream, err>>

\* The send of the first of the pieces ps, the wire being w.  A send fails
\* only once the peer is gone.
Sends(w, ps) ==
    \/ WriteOk(w, ps)
    \/ /\ ~PeerAlive
       /\ WriteFails(w)

\* getcell, sideways, select_bbox: the call and the send of its first piece.
Command ==
    /\ pc = "idle"
    /\ handle = "live"
    /\ Len(wire) < MaxCalls
    /\ \E pieces \in Requests : Sends(Append(wire, <<>>), pieces)
    /\ UNCHANGED <<builder, calls, spawned, stdin, script, addr, attempts,
                   served, input, inbox, lines, taken>>
    /\ UNCHANGED <<inst, caught, foreign>>

\* The send of the next piece of the writeln! under way.
SendPiece ==
    /\ pc = "writing"
    /\ Sends(wire, pending)
    /\ UNCHANGED <<builder, calls, spawned, stdin, script, addr, attempts,
                   served, input, inbox, lines, taken>>
    /\ UNCHANGED <<inst, caught, foreign>>

(***************************************************************************)
(* read_line: the read loop.                                               *)
(***************************************************************************)
ChunkSize == 512

\* A reader that keeps the bytes after the newline for the next call.
UnreadBuffered(buf, n, i) ==
    IF i > 0 THEN SubSeq(buf, i + 1, Len(buf)) ELSE SubSeq(buf, n + 1, Len(buf))

\* What the connection still holds after a read of n bytes whose first
\* newline is at i (0: none): the scratch buffer `bytes` is local to the
\* call, so nothing of the n bytes is kept.
Unread(buf, n, i) == SubSeq(buf, n + 1, Len(buf))

\* read_line called on the connection outside a command.
CallReadLine ==
    /\ pc = "idle"
    /\ handle = "live"
    /\ Len(starts) < MaxCalls
    /\ EnterReadLine
    /\ UNCHANGED <<builder, calls, spawned, child, kills, killResult, stdin,
                   script, listenPort, addr, attempts, handle, stream, wire,
                   served, input, inbox, lines, taken, err>>
    /\ UNCHANGED <<inst, caught, foreign, pending>>

\* One pass of the loop on a read of n > 0 bytes.
ReadChunk ==
    /\ pc = "reading"
    /\ inbox # <<>>
    /\ \E n \in 1..Min(Len(inbox), ChunkSize) :
          LET chunk == SubSeq(inbox, 1, n)
              i == FindNL(chunk)
          IN  /\ taken' = taken + n
              /\ inbox' = Unread(inbox, n, IF ValidUtf8(chunk) THEN i ELSE 0)
              /\ IF ~ValidUtf8(chunk)
                 THEN /\ PanicInCommand("decode")
                      /\ UNCHANGED <<s, lines>>
                 ELSE IF i > 0
                 THEN /\ s' = s \o SubSeq(chunk, 1, i - 1)
                      /\ lines' = Append(lines, s')
                      /\ pc' = "idle"
                      /\ UNCHANGED <<child, kills, killResult, listenPort,
                                     handle, stream, err>>
                 ELSE /\ s' = s \o chunk
                      /\ UNCHANGED <<pc, lines, child, kills, killResult,
                                     listenPort, handle, stream, err>>
    /\ UNCHANGED <<builder, calls, spawned, stdin, script, addr, attempts, wire,
                   served, input, starts, eofs>>
    /\ UNCHANGED <<inst, caught, foreign, pending>>

\* A reader that takes a read of zero bytes for the end of the line.
ReadEofReturns ==
    /\ pc = "reading"
    /\ inbox = <<>>
    /\ ~PeerAlive
    /\ lines' = Append(lines, s)
    /\ pc' = "idle"
    /\ eofs' = Min(eofs + 1, MaxEofs)
    /\ UNCHANGED <<builder, calls, spawned, child, kills, killResult, stdin,
                   script, listenPort, addr, attempts, handle, stream, wire,
                   served, input, inbox, s, starts, taken, err>>
    /\ UNCHANGED <<inst, caught, foreign, pending>>

\* The peer has closed and nothing is left: read returns Ok(0), the empty
\* chunk holds no newline, and the loop goes round again.
ReadEof ==
    /\ pc = "reading"
    /\ inbox = <<>>
    /\ ~PeerAlive
    /\ s' = s \o <<>>
    /\ eofs' = Min(eofs + 1, MaxEofs)
    /\ UNCHANGED <<builder, calls, pc, spawned, child, kills, killResult, stdin,
                   script, listenPort, addr, attempts, handle, stream, wire,
                   served, input, inbox, lines, starts, taken, err>>
    /\ UNCHANGED <<inst, caught, foreign, pending>>

\* conn.read(..).unwrap() on an Err: the connection was reset, which is what
\* a peer that went away with a request still unread answers.
ReadError ==
    /\ pc = "reading"
    /\ inbox = <<>>
    /\ ~PeerAlive
    /\ served < NumNL(Flat(wire))
    /\ PanicInCommand("reply-read")
    /\ UNCHANGED <<builder, calls, spawned, stdin, script, addr, attempts, wire,
                   served, input, inbox, s, lines, starts, taken, eofs>>
    /\ UNCHANGED <<inst, caught, foreign, pending>>

(***************************************************************************)
(* Specifications.                                                         *)
(***************************************************************************)
Fresh ==
    /\ pc = "builder"
    /\ spawned = <<>>
    /\ child = "none"
    /\ kills = 0
    /\ killResult = "none"
    /\ stdin = "none"
    /\ script = <<>>
    /\ listenPort = 0
    /\ addr = <<>>
    /\ attempts = 0
    /\ handle = "none"
    /\ stream = "none"
    /\ wire = <<>>
    /\ served = 0
    /\ input = <<>>
    /\ inbox = <<>>
    /\ s = <<>>
    /\ lines = <<>>
    /\ starts = <<>>
    /\ taken = 0
    /\ eofs = 0
    /\ err = "none"
    /\ caught = FALSE
    /\ pending = <<>>

\* The handshake and the command protocol, from a configured builder.
Init ==
    /\ calls \in StartConfigs
    /\ builder = ApplyAll(DefaultBuilder, calls)
    /\ Fresh
    /\ foreign \in {"none", "listening"}
    /\ inst = <<>>

Next ==
    \/ Build
    \/ WritePort
    \/ WriteScript
    \/ ChildListen
    \/ ChildExit
    \/ ForeignClose
    \/ ConnectAttempt
    \/ Command
    \/ SendPiece
    \/ PeerReply
    \/ ReadChunk
    \/ ReadEof
    \/ ReadError
    \/ Unwind
    \/ CatchPanic
    \/ Drop
    \/ ChildDies

Spec == Init /\ [][Next]_vars

\* The handshake alone, up to the disposal of the handle it returns.
HandshakeNext ==
    \/ Build
    \/ WritePort
    \/ WriteScript
    \/ ChildListen
    \/ ChildExit
    \/ ForeignClose
    \/ ConnectAttempt
    \/ Drop
    \/ ChildDies

\* The connect loop is a busy loop of the running thread: it keeps going.
LiveSpec == Init /\ [][HandshakeNext]_vars /\ WF_vars(ConnectAttempt)

\* The builder alone: any sequence of setters, then build.
BuilderInit ==
    /\ calls = <<>>
    /\ builder = DefaultBuilder
    /\ Fresh
    /\ foreign = "none"
    /\ inst = <<>>

BuilderNext == Cwd \/ Tech \/ Magic \/ Port \/ Build

BuilderSpec == BuilderInit /\ [][BuilderNext]_vars

\* The line reader alone, on a connected handle whose peer has sent an
\* arbitrary byte stream: "\n", "o", and the two bytes of "\u{e9}".
StreamBytes == {10, 111, 195, 169}

\* A line longer than one chunk.
LongLine == [i \in 1..(ChunkSize + 1) |-> 97] \o NL

Streams == UNION {[1..n -> StreamBytes] : n \in 0..MaxStream} \cup {LongLine}

ReaderInit ==
    /\ calls = <<>>
    /\ builder = DefaultBuilder
    /\ pc = "idle"
    /\ spawned = <<[cmd |-> NewCommand(builder), ok |-> TRUE]>>
    /\ child = "running"
    /\ kills = 0
    /\ killResult = "none"
    /\ stdin = "closed"
    /\ script = <<[op |-> "writeln", data |-> PortLine(builder.port)],
                  [op |-> "write_all", data |-> "serversock.tcl"]>>
    /\ listenPort = builder.port
    /\ addr = Addr(builder.port)
    /\ attempts = 0
    /\ handle = "live"
    /\ stream = "open"
    /\ wire = <<>>
    /\ served = 0
    /\ input \in Streams
    /\ inbox = input
    /\ s = <<>>
    /\ lines = <<>>
    /\ starts = <<>>
    /\ taken = 0
    /\ eofs = 0
    /\ err = "none"
    /\ caught = FALSE
    /\ pending = <<>>
    /\ foreign = "none"
    /\ inst = <<>>

ReaderNext ==
    \/ CallReadLine
    \/ ReadChunk
    \/ ReadEof
    \/ ChildExit
    \/ Unwind
    \/ CatchPanic
    \/ ChildDies

ReaderSpec == ReaderInit /\ [][ReaderNext]_vars

(***************************************************************************)
(* Properties.                                                             *)
(***************************************************************************)
RequestLines == NumNL(Flat(wire))

RepliesConsumed == NumNL(SubSeq(input, 1, taken))

\* C1: with a peer that sends one reply line per request line, and as long
\* as every call has returned, requests and replies stay paired in order: a
\* call returns only after its reply line has been consumed, request line
\* k+1 is never on the wire before reply k has been received, and between
\* calls every request has had its reply.
C1_StrictPairing ==
    ~caught =>
        /\ Len(lines) <= RepliesConsumed
        /\ RequestLines <= RepliesConsumed + 1
        /\ (pc = "idle" => Len(lines) = RequestLines)

\* C2: in every terminal state a child that was spawned has been sent a
\* termination signal.
C2_NoOrphan ==
    ((pc = "done" \/ (pc = "panicked" /\ handle # "live")) /\ child # "none")
        => kills >= 1

\* C3: once the handle is disposed of, exactly one termination signal has
\* been sent whatever commands came before, a failed termination is not an
\* error of the disposal, and no child is left running or listening on the
\* port.
C3_Disposal ==
    handle = "dropped" =>
        /\ kills = 1
        /\ killResult \in {"ok", "err"}
        /\ child \in {"killed", "exited"}
        /\ listenPort = 0
        /\ stream = "closed"
        /\ (pc = "done" => err = "none")

\* C4: given a stream that is one newline-terminated line of well-formed
\* text, the line reader never fails to decode and, once the newline has
\* been read, has returned exactly the text before it, however the stream
\* is split into reads.
C4_ExactLine ==
    (ValidUtf8(input) /\ FindNL(input) = Len(input) /\ input # <<>>) =>
        /\ err # "decode"
        /\ (taken >= FindNL(input) =>
               /\ Len(lines) >= 1
               /\ lines[1] = SubSeq(input, 1, FindNL(input) - 1))

\* The text of the stream from position p (exclusive) up to the next newline.
LineAt(p) ==
    LET rest == SubSeq(input, p + 1, Len(input))
    IN  SubSeq(rest, 1, FindNL(rest) - 1)

\* The ways to name, for each line returned, the call that returned it:
\* calls in order, a call returning at most one line.
CallsOfLines ==
    {f \in [1..Len(lines) -> 1..Len(starts)] :
        \A j, k \in 1..Len(lines) : j < k => f[j] < f[k]}

\* C5: the bytes a read returned are never available again; every line
\* returned is exactly the text between the stream position its call began
\* at (past everything read before, trailing bytes included) and the next
\* newline, so bytes that followed a newline in one read never come back;
\* and a call still reading has not yet been handed a newline.
C5_TrailingBytesDropped ==
    /\ inbox = SubSeq(input, taken + 1, Len(input))
    /\ \E f \in CallsOfLines :
          \A k \in 1..Len(lines) :
             /\ FindNL(SubSeq(input, starts[f[k]] + 1, Len(input))) > 0
             /\ lines[k] = LineAt(starts[f[k]])
             /\ (~caught => f[k] = k)
    /\ (pc = "reading" =>
          FindNL(SubSeq(input, starts[Len(starts)] + 1, taken)) = 0)

C5_Witness ==
    /\ Len(lines) >= 2
    /\ starts[2] > starts[1] + Len(lines[1]) + 1

\* C6: as long as every call has returned, every command call whose write
\* completed wrote exactly one newline, as its last byte, and between calls
\* exactly one reply line has been consumed per call returned.
C6_OneLinePerCall ==
    ~caught =>
        /\ \A k \in 1..Len(wire) :
              (k < Len(wire) \/ (err # "command-write" /\ pc # "writing")) =>
                  /\ NumNL(wire[k]) = 1
                  /\ wire[k][Len(wire[k])] = 10
        /\ (pc \in {"idle", "done"} => RepliesConsumed = Len(lines))

\* C7: if the listener on the configured port is eventually ready for good,
\* build eventually returns a live handle with an open connection; and a
\* step taken in the connect loop never ends it in an error.
C7_BuildEventuallyConnects ==
    /\ (<>[](listenPort = builder.port)) => <>(handle = "live" /\ stream = "open")
    /\ [][pc = "connect" => (pc' \in {"connect", "idle"} /\ err' = "none")]_vars

C7_Witness ==
    /\ handle = "live"
    /\ stream = "open"
    /\ listenPort = builder.port
    /\ foreign = "none"
    /\ child = "running"

IOErrors == {"command-write", "reply-read"}

\* The step in which a write or a read fails, and the steps taken while the
\* call stands failed: the failing step panics, and a failing write enters
\* no read_line; afterwards nothing is written or read, nothing is
\* connected or spawned, and the connection can only be closed, until the
\* call is over (the handle is dropped, or the caller has the panic).
NothingAfterIOError ==
    /\ ((err' \in IOErrors /\ err \notin IOErrors) =>
          /\ pc' = "panicked"
          /\ UNCHANGED <<taken, lines, starts, stream, attempts, spawned>>
          /\ (err' = "reply-read" => wire' = wire))
    /\ (err \in IOErrors =>
          /\ UNCHANGED <<wire, taken, s, lines, starts, eofs, attempts, spawned>>
          /\ stream' \in {stream, "closed"}
          /\ (stream' # stream => handle' = "dropped")
          /\ (err' # err => (err' = "none" /\ pc' = "idle"))
          /\ (pc' # pc => err' = "none"))

\* C8: a failed write or read during a command is fatal for the call: the
\* thread has panicked; a failed write is not followed by a read of the
\* reply, a failed read by no other read; and while the call stands failed
\* nothing is written again, no connection is opened and nothing is
\* retried.
C8_TransportFailureFatal ==
    /\ [](err \in IOErrors => pc = "panicked")
    /\ [](err = "command-write" =>
            /\ wire # <<>>
            /\ pending = <<>>
            /\ LET sent == wire[Len(wire)]
               IN  sent = <<>> \/ sent[Len(sent)] # 10)
    /\ [][NothingAfterIOError]_vars

C8_Witness ==
    /\ err = "command-write"
    /\ handle = "dropped"
    /\ Len(wire) = 2
    /\ wire[2] # <<>>
    /\ Len(starts) = 1

\* C9: a failed spawn ends build at once: it is the only spawn, the thread
\* has panicked with it, nothing was written to the child's input, no
\* connection was attempted and no handle exists.
C9_SpawnFailureFatal ==
    (\E i \in 1..Len(spawned) : ~spawned[i].ok) =>
        /\ Len(spawned) = 1
        /\ pc = "panicked"
        /\ err = "spawn"
        /\ child = "none"
        /\ stdin = "none"
        /\ script = <<>>
        /\ addr = <<>>
        /\ attempts = 0
        /\ stream = "none"
        /\ handle = "none"

C9_Witness ==
    /\ spawned # <<>>
    /\ ~spawned[1].ok
    /\ spawned[1].cmd.program = "/opt/magic"

\* The value of the last call of setter f, d when there was none.
LastSet(cs, f, d) ==
    LET idx == {i \in 1..Len(cs) : cs[i][1] = f}
    IN  IF idx = {} THEN d
        ELSE cs[CHOOSE i \in idx : \A j \in idx : j <= i][2]

\* C10: the builder holds, for each field, the value of the last setter
\* call for it or its default; the command build spawns is made from those
\* values; and nothing fails before build.
C10_LastWriteWins ==
    /\ builder = [cwd |-> LastSet(calls, "cwd", None),
                  tech |-> LastSet(calls, "tech", None),
                  magic |-> LastSet(calls, "magic", None),
                  port |-> LastSet(calls, "port", DefaultPort)]
    /\ (spawned # <<>> =>
          LET c == spawned[1].cmd
              m == LastSet(calls, "magic", None)
              t == LastSet(calls, "tech", None)
          IN  /\ c.program = (IF m = None THEN "magic" ELSE m)
              /\ c.cwd = LastSet(calls, "cwd", None)
              /\ c.args = (IF t = None THEN <<"-dnull", "-noconsole">>
                            ELSE <<"-dnull", "-noconsole", "-T", t>>))
    /\ (pc = "builder" => err = "none")
    /\ (err # "none" => spawned # <<>>)

C10_Witness ==
    /\ spawned # <<>>
    /\ \E i, j \in 1..Len(calls) :
          /\ i < j
          /\ calls[i][1] = "port"
          /\ calls[j][1] = "port"
          /\ calls[i][2] # calls[j][2]
          /\ builder.port = calls[j][2]

\* A handle comes to exist only in a step of the connect loop that found
\* the listener, and with the connection open.
HandleOnlyFromConnect ==
    (handle = "none" /\ handle' # "none") =>
        /\ pc = "connect"
        /\ (listenPort # 0 \/ foreign = "listening")
        /\ Len(script) = 2
        /\ handle' = "live"
        /\ stream' = "open"

\* C12: the handshake runs in order: the spawn, then the port line, then
\* the script on the child's input; the connect loop runs only after both
\* writes; build returns a handle only from a successful connect; and a
\* live handle owns the one spawned child and one open connection.
C12_HandshakeOrder ==
    /\ [](script # <<>> =>
            /\ Len(spawned) = 1
            /\ spawned[1].ok
            /\ script[1].op = "writeln")
    /\ [](Len(script) <= 2 /\ (Len(script) = 2 => script[2].op = "write_all"))
    /\ []((pc = "connect" \/ attempts > 0 \/ addr # <<>> \/ stream # "none")
            => Len(script) = 2)
    /\ [](pc \in {"idle", "writing", "reading", "done"} => handle # "none")
    /\ [](handle = "live" =>
            /\ stream = "open"
            /\ Len(spawned) = 1
            /\ spawned[1].ok
            /\ child # "none")
    /\ [][HandleOnlyFromConnect]_vars

C12_Witness ==
    /\ handle = "live"
    /\ pc = "reading"
    /\ Len(script) = 2
    /\ listenPort = builder.port
    /\ foreign = "none"

\* A step taken in the connect loop while the tool's listener is not open
\* stays in it.
ConnectLoopSpins ==
    (pc = "connect" /\ listenPort = 0 /\ listenPort' = 0) =>
        /\ pc' = "connect"
        /\ err' = "none"
        /\ handle' = "none"
        /\ stream' = "none"
        /\ stdin' = "open"

\* C13: while the tool has not opened its listener the connect loop can
\* always make another attempt, whatever number came before, and no step
\* leaves it, with a handle or with an error; if the tool's listener never
\* opens, no handle ever exists.
C13_ConnectLoopForever ==
    /\ [](pc = "connect" => ENABLED ConnectAttempt)
    /\ [][ConnectLoopSpins]_vars
    /\ ([](listenPort = 0) => [](handle = "none" /\ err # "connect"))

\* "127.0.0.1:"
Loopback == <<49, 50, 55, 46, 48, 46, 48, 46, 49, 58>>

\* "set svcPort "
SetSvcPort == <<115, 101, 116, 32, 115, 118, 99, 80, 111, 114, 116, 32>>

\* The builder, and the address once made, do not change.
TargetFixed ==
    /\ (pc # "builder" => builder' = builder)
    /\ (addr # <<>> => addr' = addr)

\* What the child was sent of the port line: "set svcPort ", then digits
\* that read back as the builder's port, then the newline; all of it once
\* new has gone past the write.
SentPortIsBuilders ==
    LET d == script[1].data
        whole == d[Len(d)] = 10
        digits == SubSeq(d, 13, IF whole THEN Len(d) - 1 ELSE Len(d))
    IN  /\ SubSeq(d, 1, 12) = SetSvcPort
        /\ (digits # <<>> => ParseDecimal(digits) = builder.port)
        /\ (whole => digits # <<>>)
        /\ ((pc # "panicked" \/ Len(script) = 2) => whole)

\* C16: the port read back from the port line on the child's input and the
\* port read back from the address of the connect loop are both the
\* builder's port, the address names host 127.0.0.1, and neither the
\* builder nor the address changes while build runs.
C16_SamePort ==
    /\ [](script # <<>> => SentPortIsBuilders)
    /\ [](addr # <<>> =>
            /\ SubSeq(addr, 1, 10) = Loopback
            /\ ParseDecimal(SubSeq(addr, 11, Len(addr))) = builder.port)
    /\ []((pc = "connect" \/ stream # "none") => addr # <<>>)
    /\ [](builder.port = LastSet(calls, "port", DefaultPort))
    /\ [][TargetFixed]_vars

C16_Witness ==
    /\ handle = "live"
    /\ builder.port = 1024
    /\ ParseDecimal(SubSeq(addr, 11, Len(addr))) = 1024
    /\ listenPort = 1024

\* What a step may do to the child and the connection.
KillOnlyByDisposal ==
    /\ (kills' # kills =>
          /\ handle = "live"
          /\ handle' = "dropped"
          /\ kills' = kills + 1)
    /\ (handle' # "dropped" =>
          /\ child' \notin {"dying", "killed"}
          /\ (handle = "live" => (spawned' = spawned /\ stream' = stream)))
    /\ (child' # child =>
          \/ child = "none" /\ child' = "running" /\ pc = "builder"
          \/ child = "running" /\ child' = "exited"
          \/ child = "running" /\ child' = "dying" /\ kills' = kills + 1
          \/ child = "dying" /\ child' = "killed" /\ kills' = kills)
    /\ (kills >= 1 => wire' = wire)

\* C17: a termination signal is sent only in the step that disposes of
\* the handle, and at most once; while the handle is not disposed of, no
\* step of build or of a command kills the child, spawns another or
\* replaces the connection; and nothing is written to the connection
\* after the signal.
C17_KillOnlyByDisposal ==
    /\ [](kills <= 1)
    /\ [](kills = 1 <=> handle = "dropped")
    /\ [][KillOnlyByDisposal]_vars

C17_Witness ==
    /\ pc = "done"
    /\ kills = 1
    /\ child = "killed"
    /\ caught
    /\ Len(wire) = MaxCalls
    /\ Len(lines) >= 1

\* What a step may do to the child's stdin.
StdinHeldByNew ==
    /\ (stdin' # stdin =>
          \/ stdin = "none" /\ stdin' = "open" /\ pc = "builder" /\ pc' = "write_port"
          \/ /\ stdin = "open" /\ stdin' = "closed"
             /\ pc \in {"write_port", "write_script", "connect"}
             /\ pc' \in {"idle", "panicked"})
    /\ (script' # script =>
          /\ pc \in {"write_port", "write_script"}
          /\ stdin = "open"
          /\ (stdin' = "open" \/ pc' = "panicked")
          /\ handle = "none")
    /\ (handle # "none" => script' = script /\ stdin' = "closed")

\* C18: the write end of the child's stdin is open during the two
\* bootstrap writes and every pass of the connect loop, and is closed in
\* the step in which new returns or panics; once a handle exists the stdin
\* is closed and stays closed, and no step writes to it.
C18_StdinClosedOnReturn ==
    /\ [](pc \in {"write_port", "write_script", "connect"} => stdin = "open")
    /\ [](handle # "none" => stdin = "closed")
    /\ [](pc \in {"idle", "writing", "reading", "done"} => stdin = "closed")
    /\ [](pc = "panicked" /\ child # "none" => stdin = "closed")
    /\ [][StdinHeldByNew]_vars

C18_Witness ==
    /\ handle = "live"
    /\ stdin = "closed"
    /\ Len(script) = 2
    /\ Len(wire) = MaxCalls
    /\ pc = "reading"

\* The peer has closed in an orderly way, every byte it sent has been
\* read, and the running call has not met a newline.
PeerClosedMidLine ==
    /\ pc = "reading"
    /\ inbox = <<>>
    /\ ~PeerAlive
    /\ served = NumNL(Flat(wire))

ReadLoopSpins ==
    PeerClosedMidLine =>
        /\ PeerClosedMidLine'
        /\ s' = s
        /\ taken' = taken
        /\ lines' = lines
        /\ err' = "none"
        /\ handle' = "live"
        /\ stream' = "open"

\* C14: once the peer has closed before the newline of the running call,
\* a read of zero bytes is always possible, and every step leaves the
\* call inside read_line with the same accumulated text: no byte is read,
\* no line is returned, no error is raised and the handle stays live.
C14_EofLoopsForever ==
    /\ [](PeerClosedMidLine => ENABLED ReadEof)
    /\ [](PeerClosedMidLine => err = "none" /\ handle = "live")
    /\ [][ReadLoopSpins]_vars

C14_Witness ==
    /\ PeerClosedMidLine
    /\ eofs = MaxEofs
    /\ s # <<>>
    /\ taken = Len(input)

\* Well-formed UTF-8; bytes below 128 are well-formed in any number.
WellFormed(bs) == (\A i \in 1..Len(bs) : bs[i] < 128) \/ Utf8From(bs, 1)

\* The bytes the read of this step returned.
ChunkOfStep == SubSeq(input, taken + 1, taken')

DecodeEachChunk ==
    /\ (taken' # taken =>
          IF WellFormed(ChunkOfStep)
          THEN /\ err' = "none"
               /\ pc' \in {"reading", "idle"}
               /\ handle' = "live"
               /\ (pc' = "reading" => s' = s \o ChunkOfStep)
          ELSE /\ err' = "decode"
               /\ pc' = "panicked"
               /\ lines' = lines
               /\ s' = s)
    /\ (err = "decode" =>
          /\ UNCHANGED <<lines, taken, s>>
          /\ (pc' # pc => (pc' = "idle" /\ err' = "none")))

\* The chunk of the last read of the running call.
LastChunk == SubSeq(input, starts[Len(starts)] + Len(s) + 1, taken)

\* C15: every read is decoded by itself: a read whose bytes, all of them,
\* are well-formed UTF-8 never raises an error, and a read whose bytes are
\* not, wherever in the chunk the fault lies, panics without returning
\* a line, after which the call reads no more and returns no line.
C15_InvalidChunkFatal ==
    /\ [](err = "decode" => pc = "panicked" /\ ~WellFormed(LastChunk))
    /\ [][DecodeEachChunk]_vars

\* A chunk that holds a well-formed line, its newline, and a fault after it.
C15_Witness ==
    /\ err = "decode"
    /\ FindNL(LastChunk) > 1
    /\ WellFormed(SubSeq(LastChunk, 1, FindNL(LastChunk)))
    /\ ~WellFormed(LastChunk)

(***************************************************************************)
(* Two handles side by side.  inst[i] holds, for handle i, the builder's   *)
(* port, the position of its thread, its child, what its child was sent on *)
(* stdin, the listener of its child, the address it connects to, the child *)
(* that accepted its connection, and the traffic on its connection.        *)
(***************************************************************************)
Handles == {1, 2}

\* The default port and one port chosen by the caller.
PairPorts == {DefaultPort} \cup {p \in Ports : \A q \in Ports : p <= q}

NewInstance(p) ==
    [port |-> p, pc |-> "builder", child |-> "none", stdin |-> "none",
     script |-> <<>>, bound |-> "no", listen |-> 0, addr |-> <<>>, peer |-> 0,
     stream |-> "none", wire |-> <<>>, served |-> 0, inbox |-> <<>>,
     origin |-> <<>>, s |-> <<>>, lines |-> <<>>, kills |-> 0, err |-> "none"]

\* The step of handle i that takes its state to r; nothing else moves.
Becomes(i, r) ==
    /\ inst' = [inst EXCEPT ![i] = r]
    /\ UNCHANGED solo

\* Drop for MagicInstance on the state r of a handle: SIGKILL is sent and
\* the connection closed; the child and its listener are there until the
\* signal has done its work.
Dropped(r) ==
    [r EXCEPT !.stream = "closed", !.kills = @ + 1,
              !.child = IF @ = "running" THEN "dying" ELSE @]

\* unwrap() on an Err inside a method of the handle in state r.
Panicked(r, e) == [r EXCEPT !.pc = "panicked", !.err = e]

\* The port of a "127.0.0.1:{}" address.
AddrPort(a) == ParseDecimal(SubSeq(a, 11, Len(a)))

\* The children that accept a connection to address a.
Listeners(a) == {j \in Handles : inst[j].bound = "yes" /\ inst[j].listen = AddrPort(a)}

\* Is the far end of handle i's connection still there.
PeerUp(i) == inst[i].peer # 0 /\ inst[inst[i].peer].child \in {"running", "dying"}

PairBuild(i) ==
    /\ inst[i].pc = "builder"
    /\ \/ Becomes(i, [inst[i] EXCEPT !.child = "running", !.stdin = "open",
                                      !.pc = "write_port"])
       \/ Becomes(i, [inst[i] EXCEPT !.pc = "panicked", !.err = "spawn"])

PairWritePort(i) ==
    /\ inst[i].pc = "write_port"
    /\ \/ Becomes(i, [inst[i] EXCEPT !.script = Append(@, PortLine(inst[i].port)),
                                      !.pc = "write_script"])
       \/ \E k \in 0..(Len(PortLinePieces(inst[i].port)) - 1) :
             Becomes(i, [inst[i] EXCEPT
                            !.script = IF k = 0 THEN @
                                       ELSE Append(@, Flat(SubSeq(PortLinePieces(inst[i].port), 1, k))),
                            !.pc = "panicked", !.err = "handshake-write",
                            !.stdin = "closed"])

PairWriteScript(i) ==
    /\ inst[i].pc = "write_script"
    /\ \/ Becomes(i, [inst[i] EXCEPT !.script = Append(@, <<>>),
                                      !.addr = Addr(inst[i].port),
                                      !.pc = "connect"])
       \/ Becomes(i, [inst[i] EXCEPT !.pc = "panicked", !.err = "handshake-write",
                                      !.stdin = "closed"])

\* One pass of the connect loop: whoever listens on the address accepts.
PairConnect(i) ==
    /\ inst[i].pc = "connect"
    /\ IF Listeners(inst[i].addr) # {}
       THEN \E j \in Listeners(inst[i].addr) :
               Becomes(i, [inst[i] EXCEPT !.peer = j, !.stream = "open",
                                          !.stdin = "closed", !.pc = "idle"])
       ELSE Becomes(i, inst[i])

\* The child of handle i runs its script: it listens on svcPort unless the
\* port is taken.
PairChildListen(i) ==
    /\ inst[i].child = "running"
    /\ inst[i].bound = "no"
    /\ Len(inst[i].script) = 2
    /\ LET p == SvcPort(inst[i].script[1])
       IN  IF \E j \in Handles : inst[j].bound = "yes" /\ inst[j].listen = p
           THEN Becomes(i, [inst[i] EXCEPT !.bound = "failed"])
           ELSE Becomes(i, [inst[i] EXCEPT !.bound = "yes", !.listen = p])

PairChildExit(i) ==
    /\ inst[i].child = "running"
    /\ Becomes(i, [inst[i] EXCEPT !.child = "exited", !.bound = "no", !.listen = 0])

\* SIGKILL takes effect on the child of handle i.
PairChildDies(i) ==
    /\ inst[i].child = "dying"
    /\ Becomes(i, [inst[i] EXCEPT !.child = "killed", !.bound = "no", !.listen = 0])

\* The child that accepted handle i's connection answers a request line.
PairPeerReply(i) ==
    /\ inst[i].stream = "open"
    /\ PeerUp(i)
    /\ inst[i].served < NumNL(Flat(inst[i].wire))
    /\ \E r \in Replies :
          Becomes(i, [inst[i] EXCEPT !.inbox = @ \o r, !.served = @ + 1,
                                     !.origin = Append(@, inst[i].peer)])

\* sideways and select_bbox, the commands that take no argument.
PairRequests == {SidewaysPieces, SelectBboxPieces}

PairCommand(i) ==
    /\ inst[i].pc = "idle"
    /\ Len(inst[i].wire) < PairCalls
    /\ \E pieces \in PairRequests :
          \/ Becomes(i, [inst[i] EXCEPT !.wire = Append(@, Flat(pieces)),
                                         !.s = <<>>, !.pc = "reading"])
          \/ /\ ~PeerUp(i)
             /\ \E k \in 0..(Len(pieces) - 1) :
                   Becomes(i, [Panicked(inst[i], "command-write") EXCEPT
                                  !.wire = Append(@, Flat(SubSeq(pieces, 1, k)))])

PairReadChunk(i) ==
    /\ inst[i].pc = "reading"
    /\ inst[i].inbox # <<>>
    /\ \E n \in 1..Min(Len(inst[i].inbox), ChunkSize) :
          LET chunk == SubSeq(inst[i].inbox, 1, n)
              k == FindNL(chunk)
              rest == Unread(inst[i].inbox, n, IF ValidUtf8(chunk) THEN k ELSE 0)
          IN  IF ~ValidUtf8(chunk)
              THEN Becomes(i, [Panicked(inst[i], "decode") EXCEPT !.inbox = rest])
              ELSE IF k > 0
              THEN Becomes(i, [inst[i] EXCEPT !.inbox = rest, !.pc = "idle",
                                  !.s = @ \o SubSeq(chunk, 1, k - 1),
                                  !.lines = Append(@, inst[i].s \o SubSeq(chunk, 1, k - 1))])
              ELSE Becomes(i, [inst[i] EXCEPT !.inbox = rest, !.s = @ \o chunk])

PairReadEof(i) ==
    /\ inst[i].pc = "reading"
    /\ inst[i].inbox = <<>>
    /\ ~PeerUp(i)
    /\ Becomes(i, [inst[i] EXCEPT !.s = @ \o <<>>])

PairReadError(i) ==
    /\ inst[i].pc = "reading"
    /\ inst[i].inbox = <<>>
    /\ ~PeerUp(i)
    /\ inst[i].served < NumNL(Flat(inst[i].wire))
    /\ Becomes(i, Panicked(inst[i], "reply-read"))

\* The unwinding of a panic in a method reaches the owner of handle i.
PairUnwind(i) ==
    /\ inst[i].pc = "panicked"
    /\ inst[i].stream = "open"
    /\ Becomes(i, Dropped(inst[i]))

\* The caller catches the panic and keeps handle i.
PairCatch(i) ==
    /\ inst[i].pc = "panicked"
    /\ inst[i].stream = "open"
    /\ Becomes(i, [inst[i] EXCEPT !.pc = "idle", !.err = "none"])

PairDrop(i) ==
    /\ inst[i].pc = "idle"
    /\ Becomes(i, [Dropped(inst[i]) EXCEPT !.pc = "done"])

\* Two builders, each with its port set, before either is built: the first
\* with the port chosen by the caller, the second with that port or the
\* default.
PairInit ==
    /\ calls = <<>>
    /\ builder = DefaultBuilder
    /\ Fresh
    /\ foreign = "none"
    /\ \E ps \in [Handles -> PairPorts] :
          /\ ps[1] # DefaultPort
          /\ inst = [i \in Handles |-> NewInstance(ps[i])]

PairNext ==
    \E i \in Handles :
        \/ PairBuild(i)
        \/ PairWritePort(i)
        \/ PairWriteScript(i)
        \/ PairChildListen(i)
        \/ PairChildExit(i)
        \/ PairChildDies(i)
        \/ PairConnect(i)
        \/ PairCommand(i)
        \/ PairPeerReply(i)
        \/ PairReadChunk(i)
        \/ PairReadEof(i)
        \/ PairReadError(i)
        \/ PairUnwind(i)
        \/ PairCatch(i)
        \/ PairDrop(i)

PairSpec == PairInit /\ [][PairNext]_vars

\* The two builders were given different ports.
DistinctPorts == inst[1].port # inst[2].port

\* Every connection of a handle ends at that handle's own child, which
\* listens on the handle's port, and every reply put on it is that child's.
OwnPeerOnly ==
    \A i \in Handles :
        /\ inst[i].peer \in {0, i}
        /\ inst[i].bound # "failed"
        /\ (inst[i].bound = "yes" => inst[i].listen = inst[i].port)
        /\ \A k \in 1..Len(inst[i].origin) : inst[i].origin[k] = i
        /\ Len(inst[i].origin) = inst[i].served
        /\ inst[i].served <= NumNL(Flat(inst[i].wire))

\* A step moves one handle, and the disposal of one handle leaves the
\* other's child, connection and far end as they were.
OneHandleMoves ==
    \A i \in Handles : \A j \in Handles \ {i} :
        /\ (inst'[i] # inst[i] => inst'[j] = inst[j])
        /\ (inst'[i].kills # inst[i].kills =>
              /\ inst'[j].child = inst[j].child
              /\ inst'[j].stream = inst[j].stream
              /\ (PeerUp(j) => PeerUp(j)'))

\* C11: with different ports, under every interleaving, each handle is
\* connected to its own child only, so that what it writes is answered
\* by that child alone and what it reads was sent by that child alone; a
\* step changes the state of one handle only; and the disposal of one
\* handle leaves the other's child running and its connection open.
C11_NoInterference ==
    /\ [](DistinctPorts => OwnPeerOnly)
    /\ [][DistinctPorts => OneHandleMoves]_vars

C11_Witness ==
    /\ DistinctPorts
    /\ inst[1].pc = "done"
    /\ inst[1].kills = 1
    /\ inst[1].child = "killed"
    /\ Len(inst[1].lines) = PairCalls
    /\ inst[2].stream = "open"
    /\ PeerUp(2)
    /\ inst[2].pc = "idle"
    /\ Len(inst[2].lines) = PairCalls

====
